---- MODULE Spec2Model ----
\* HarnessDigitalTwin (src/WiringHelper.py): a networkx DiGraph of ECUs, pins,
\* splices and loads, two loaders and one validation query.
\*
\* Units.  The source computes in floats; the model uses fixed point:
\*   current            0.1 A      (4.0 A = 40, 10.0 A = 100, 5.0 A = 50)
\*   length_m           0.1 m      (1.5 m = 15)
\*   resistance_per_m   1 mOhm/m   (0.021 Ohm/m = 21)
\*   resistance         0.1 mOhm   (length * resistance_per_m)
\*   voltage            10 uV      (current * resistance; 0.5 V = 50000)
\*   voltage_ref        0.1 V
EXTENDS Integers, Sequences, FiniteSets, TLC

VARIABLES graph, query, result, loaded, nrecords, mirror, order

vars == <<graph, query, result, loaded, nrecords, mirror, order>>

-----------------------------------------------------------------------------
\* Bounds of the model.

\* pin entries and connection records loaded into one twin, over all calls
MaxRecords == 3

-----------------------------------------------------------------------------
\* Python dicts as functions; dict.update as Merge.

EmptyDict == <<>>

Merge(old, new) ==
    [k \in (DOMAIN old) \cup (DOMAIN new) |->
        IF k \in DOMAIN new THEN new[k] ELSE old[k]]

\* dict.get(key) with the default None
NoneValue == "None"

Get(d, k) == IF k \in DOMAIN d THEN d[k] ELSE NoneValue

-----------------------------------------------------------------------------
\* nx.DiGraph.  node: key -> attribute dict.  succ / pred: key -> neighbour keys
\* in insertion order (the adjacency dicts).  edge: <<u, v>> -> attribute dict.

EmptyGraph == [node |-> <<>>, succ |-> <<>>, pred |-> <<>>, edge |-> <<>>]

HasNode(G, n) == n \in DOMAIN G.node

HasEdge(G, u, v) == <<u, v>> \in DOMAIN G.edge

\* a node created without attributes, as add_edge does for a missing endpoint
Vivify(G, n) ==
    IF HasNode(G, n) THEN G
    ELSE [G EXCEPT !.node = (n :> EmptyDict) @@ @,
                   !.succ = (n :> <<>>) @@ @,
                   !.pred = (n :> <<>>) @@ @]

\* G.add_node(n, **attr): create, or update the attributes of the existing node
add_node(G, n, attr) ==
    LET G1 == Vivify(G, n)
    IN  [G1 EXCEPT !.node[n] = Merge(@, attr)]

\* add_edge that replaces the attributes of an existing edge instead of
\* updating them
add_edge_replacing(G, u, v, attr) ==
    LET G1 == Vivify(Vivify(G, u), v)
    IN  IF HasEdge(G1, u, v)
        THEN [G1 EXCEPT !.edge[<<u, v>>] = attr]
        ELSE [G1 EXCEPT !.edge = (<<u, v>> :> attr) @@ @,
                        !.succ[u] = Append(@, v),
                        !.pred[v] = Append(@, u)]

\* G.add_edge(u, v, **attr): endpoints are created when missing; an existing
\* edge keeps its place in the adjacency and has its attributes updated
add_edge(G, u, v, attr) ==
    LET G1 == Vivify(Vivify(G, u), v)
        old == IF HasEdge(G1, u, v) THEN G1.edge[<<u, v>>] ELSE EmptyDict
    IN  IF HasEdge(G1, u, v)
        THEN [G1 EXCEPT !.edge[<<u, v>>] = Merge(old, attr)]
        ELSE [G1 EXCEPT !.edge = (<<u, v>> :> Merge(old, attr)) @@ @,
                        !.succ[u] = Append(@, v),
                        !.pred[v] = Append(@, u)]

-----------------------------------------------------------------------------
\* Outcomes of a call.

Returned(v) == [kind |-> "return", value |-> v]

Raised(e) == [kind |-> "raise", value |-> e]

-----------------------------------------------------------------------------
\* load_ecu_specs

\* f"{ecu_id}:{pin['pin_number']}"
PinId(ecu_id, pin_number) == ecu_id \o ":" \o pin_number

PinFields == {"pin_number", "max_current_amps", "voltage_ref"}

\* the loop body for pins[i..]; a pin lacking a field raises KeyError before
\* its add_node is called
RECURSIVE LoadPins(_, _, _, _)
LoadPins(G, ecu_id, pins, i) ==
    IF i > Len(pins) THEN [graph |-> G, result |-> Returned(NoneValue)]
    ELSE LET pin == pins[i]
         IN  IF ~(PinFields \subseteq DOMAIN pin)
             THEN [graph |-> G, result |-> Raised("KeyError")]
             ELSE LET pin_id == PinId(ecu_id, pin.pin_number)
                      G1 == add_node(G, pin_id,
                                [type |-> "PIN",
                                 max_current |-> pin.max_current_amps,
                                 voltage_ref |-> pin.voltage_ref])
                      G2 == add_edge(G1, ecu_id, pin_id, [type |-> "INTERNAL"])
                  IN  LoadPins(G2, ecu_id, pins, i + 1)

load_ecu_specs(G, json_data) ==
    LET ecu_id == json_data.ecu_id
        G1 == add_node(G, ecu_id, [type |-> "ECU", specs |-> json_data])
    IN  LoadPins(G1, ecu_id, json_data.pins, 1)

-----------------------------------------------------------------------------
\* load_harness_netlist

WireProps(connection) ==
    [gauge_awg |-> connection.gauge,
     length_m |-> connection.length_m,
     resistance_ohm_per_m |-> connection.resistance_per_m]

\* the loop without the mirror edge
RECURSIVE LoadConnectionsOneWay(_, _, _)
LoadConnectionsOneWay(G, netlist_data, i) ==
    IF i > Len(netlist_data) THEN [graph |-> G, result |-> Returned(NoneValue)]
    ELSE LET connection == netlist_data[i]
             G1 == add_edge(G, connection.from, connection.to, WireProps(connection))
         IN  LoadConnectionsOneWay(G1, netlist_data, i + 1)

RECURSIVE LoadConnections(_, _, _)
LoadConnections(G, netlist_data, i) ==
    IF i > Len(netlist_data) THEN [graph |-> G, result |-> Returned(NoneValue)]
    ELSE LET connection == netlist_data[i]
             source == connection.from
             target == connection.to
             wire_props == WireProps(connection)
             G1 == add_edge(G, source, target, wire_props)
             G2 == add_edge(G1, target, source, wire_props)
         IN  LoadConnections(G2, netlist_data, i + 1)

load_harness_netlist(G, netlist_data) == LoadConnections(G, netlist_data, 1)

-----------------------------------------------------------------------------
\* nx.shortest_path(G, source, target): the unweighted method, a bidirectional
\* breadth-first search that grows the smaller fringe one level at a time.

\* one forward level: for v in this_level: for w in G.succ[v]
RECURSIVE ExpandForward(_, _, _, _, _)
ExpandForward(G, st, this_level, i, j) ==
    IF i > Len(this_level) THEN st
    ELSE LET v == this_level[i]
         IN  IF j > Len(G.succ[v]) THEN ExpandForward(G, st, this_level, i + 1, 1)
             ELSE LET w == G.succ[v][j]
                      st1 == IF w \in DOMAIN st.pred THEN st
                             ELSE [st EXCEPT !.forward_fringe = Append(@, w),
                                             !.pred = (w :> v) @@ @]
                  IN  IF w \in DOMAIN st1.succ
                      THEN [st1 EXCEPT !.found = <<w>>]
                      ELSE ExpandForward(G, st1, this_level, i, j + 1)

\* one reverse level: for v in this_level: for w in G.pred[v]
RECURSIVE ExpandReverse(_, _, _, _, _)
ExpandReverse(G, st, this_level, i, j) ==
    IF i > Len(this_level) THEN st
    ELSE LET v == this_level[i]
         IN  IF j > Len(G.pred[v]) THEN ExpandReverse(G, st, this_level, i + 1, 1)
             ELSE LET w == G.pred[v][j]
                      st1 == IF w \in DOMAIN st.succ THEN st
                             ELSE [st EXCEPT !.reverse_fringe = Append(@, w),
                                             !.succ = (w :> v) @@ @]
                  IN  IF w \in DOMAIN st1.pred
                      THEN [st1 EXCEPT !.found = <<w>>]
                      ELSE ExpandReverse(G, st1, this_level, i, j + 1)

\* while forward_fringe and reverse_fringe: ...   found = <<>> at the end is
\* NetworkXNoPath
RECURSIVE BidirectionalPredSucc(_, _)
BidirectionalPredSucc(G, st) ==
    IF st.found # <<>> THEN st
    ELSE IF st.forward_fringe = <<>> \/ st.reverse_fringe = <<>> THEN st
    ELSE IF Len(st.forward_fringe) <= Len(st.reverse_fringe)
         THEN BidirectionalPredSucc(G,
                  ExpandForward(G, [st EXCEPT !.forward_fringe = <<>>],
                                st.forward_fringe, 1, 1))
         ELSE BidirectionalPredSucc(G,
                  ExpandReverse(G, [st EXCEPT !.reverse_fringe = <<>>],
                                st.reverse_fringe, 1, 1))

\* w, pred[w], pred[pred[w]], ... up to the source, in walking order
RECURSIVE WalkBack(_, _)
WalkBack(parent, w) ==
    IF w = NoneValue THEN <<>> ELSE <<w>> \o WalkBack(parent, parent[w])

Reverse(s) == [i \in 1..Len(s) |-> s[Len(s) + 1 - i]]

\* the path as a sequence of node keys; <<>> stands for NetworkXNoPath.
\* Both endpoints are nodes of G here.
BidirectionalShortestPath(G, source, target) ==
    IF source = target THEN <<source>>
    ELSE LET st == BidirectionalPredSucc(G,
                       [pred |-> (source :> NoneValue),
                        succ |-> (target :> NoneValue),
                        forward_fringe |-> <<source>>,
                        reverse_fringe |-> <<target>>,
                        found |-> <<>>])
         IN  IF st.found = <<>> THEN <<>>
             ELSE LET w == st.found[1]
                  IN  Reverse(WalkBack(st.pred, w)) \o Tail(WalkBack(st.succ, w))

-----------------------------------------------------------------------------
\* validate_feature_change

\* the fixed target of the path search
TargetPin == "BCM_Gen2:Pin4"

\* Rule B threshold, 0.5 V
MaxVoltageDrop == 50000

WireFields == {"resistance_ohm_per_m", "length_m"}

\* step 3: the loop from edge i on with the running total; <<>> is the
\* KeyError of an edge that is not INTERNAL and lacks a wire attribute
RECURSIVE TotalResistance(_, _, _, _)
TotalResistance(G, path, i, total_resistance) ==
    IF i > Len(path) - 1 THEN <<total_resistance>>
    ELSE LET edge_data == G.edge[<<path[i], path[i + 1]>>]
         IN  IF Get(edge_data, "type") # "INTERNAL"
             THEN IF ~(WireFields \subseteq DOMAIN edge_data) THEN <<>>
                  ELSE LET r == edge_data.resistance_ohm_per_m * edge_data.length_m
                       IN  TotalResistance(G, path, i + 1, total_resistance + r)
             ELSE TotalResistance(G, path, i + 1, total_resistance)

\* round half to even of n / d, for the .4f and .2f renderings
RoundDiv(n, d) ==
    LET q == n \div d
        r == n % d
    IN  IF 2 * r > d \/ (2 * r = d /\ q % 2 = 1) THEN q + 1 ELSE q

RuleA(new_current_draw, pin_specs) ==
    IF new_current_draw > pin_specs.max_current
    THEN [outcome |-> "FAIL", rule |-> "Pin Overcurrent", detail |-> <<>>]
    ELSE [outcome |-> "PASS", rule |-> "Current OK", detail |-> <<>>]

RuleB(v_drop) ==
    IF v_drop > MaxVoltageDrop
    THEN [outcome |-> "FAIL", rule |-> "Voltage Drop High",
          detail |-> <<RoundDiv(v_drop, 1000)>>]
    ELSE [outcome |-> "PASS", rule |-> "Voltage Drop OK", detail |-> <<>>]

\* steps 3 and 4 with Rule B evaluated only when Rule A passes
VerdictShortCircuit(G, path, new_current_draw) ==
    LET pin_node == path[Len(path)]
        pin_specs == G.node[pin_node]
        total == TotalResistance(G, path, 1, 0)
    IN  IF total = <<>> \/ "max_current" \notin DOMAIN pin_specs
        THEN Raised("KeyError")
        ELSE LET v_drop == new_current_draw * total[1]
                 first == RuleA(new_current_draw, pin_specs)
             IN  Returned([target_pin |-> pin_node,
                           load_request |-> new_current_draw,
                           pin_capacity |-> pin_specs.max_current,
                           voltage_drop |-> RoundDiv(v_drop, 10),
                           checks |-> IF first.outcome = "FAIL" THEN <<first>>
                                      ELSE <<first, RuleB(v_drop)>>])

\* steps 2 to 4 on a found path
Verdict(G, path, new_current_draw) ==
    LET pin_node == path[Len(path)]
        pin_specs == G.node[pin_node]
        total == TotalResistance(G, path, 1, 0)
    IN  IF total = <<>> \/ "max_current" \notin DOMAIN pin_specs
        THEN Raised("KeyError")
        ELSE LET v_drop == new_current_draw * total[1]
             IN  Returned([target_pin |-> pin_node,
                           load_request |-> new_current_draw,
                           pin_capacity |-> pin_specs.max_current,
                           voltage_drop |-> RoundDiv(v_drop, 10),
                           checks |-> <<RuleA(new_current_draw, pin_specs),
                                        RuleB(v_drop)>>])

NoPathResult == [status |-> "FAIL", reason |-> "No path to power source found."]

validate_feature_change(G, load_node_id, new_current_draw) ==
    IF ~HasNode(G, load_node_id) \/ ~HasNode(G, TargetPin)
    THEN Raised("NodeNotFound")
    ELSE LET path == BidirectionalShortestPath(G, load_node_id, TargetPin)
         IN  IF path = <<>> THEN Returned(NoPathResult)
             ELSE Verdict(G, path, new_current_draw)

-----------------------------------------------------------------------------
\* Inputs.

SeqsOfLen(S, k) == [1..k -> S]

\* pin entries of a descriptor of BCM_Gen2: the two pins of bcm_specs, a pin
\* number that holds a colon, a negative rating, and an entry without
\* max_current_amps
BcmPins ==
    { [pin_number |-> "Pin4", max_current_amps |-> 50, voltage_ref |-> 120],
      [pin_number |-> "Pin5", max_current_amps |-> 5, voltage_ref |-> 0],
      [pin_number |-> "Pin4:Pin5", max_current_amps |-> 50, voltage_ref |-> 120],
      [pin_number |-> "Pin4", max_current_amps |-> -50, voltage_ref |-> 120],
      [pin_number |-> "Pin5", voltage_ref |-> 0] }

\* the pin entry of a descriptor whose ecu_id holds a colon
SubPins ==
    { [pin_number |-> "Pin5", max_current_amps |-> 5, voltage_ref |-> 0] }

\* the pin entries a descriptor of each ECU id draws from
PinsOf(ecu_id) == IF ecu_id = "BCM_Gen2" THEN BcmPins ELSE SubPins

EcuIds == {"BCM_Gen2", "BCM_Gen2:Pin4"}

\* descriptors with k pins (an ECU owns one or more pins)
Descriptors(k) ==
    UNION {[ecu_id : {e}, pins : SeqsOfLen(PinsOf(e), k)] : e \in EcuIds}

\* every pin entry carries every field
Complete(json_data) ==
    \A i \in 1..Len(json_data.pins) : PinFields \subseteq DOMAIN json_data.pins[i]

Wire(from, to, gauge, length_m, resistance_per_m) ==
    [from |-> from, to |-> to, gauge |-> gauge, length_m |-> length_m,
     resistance_per_m |-> resistance_per_m]

\* connection records: the first segment of harness_data, a second segment,
\* the same segment reversed with other attributes, a self loop, a wire between
\* an ECU and its own pin, a wire to the second pin, and three records with a
\* negative length, a zero gauge and a negative resistance
Connections ==
    { Wire("BCM_Gen2:Pin4", "Splice_A22", 18, 15, 21),
      Wire("Splice_A22", "Lamp_Fog_L", 20, 40, 33),
      Wire("Lamp_Fog_L", "Splice_A22", 18, 5, 21),
      Wire("Lamp_Fog_L", "Lamp_Fog_L", 20, 2, 33),
      Wire("BCM_Gen2", "BCM_Gen2:Pin4", 18, 15, 21),
      Wire("Lamp_Fog_L", "BCM_Gen2:Pin5", 20, 2, 33),
      Wire("Splice_A22", "Lamp_Fog_L", 18, -15, 21),
      Wire("BCM_Gen2:Pin4", "Splice_A22", 0, 15, 21),
      Wire("Lamp_Fog_L", "BCM_Gen2:Pin5", 20, 2, -33) }

\* netlists of k records
Netlists(k) == SeqsOfLen(Connections, k)

LoadNodeIds == {"Lamp_Fog_L", "BCM_Gen2", "Relay_K1"}

CurrentDraws == {40, 100}

-----------------------------------------------------------------------------
\* The twin: construction and the three methods.  query is the validation
\* query whose outcome result holds, NoQuery after construction and after a
\* loader call; loaded is the set of <<from, to>> of the records loaded so far.

NoQuery == <<>>

Init ==
    /\ graph = EmptyGraph
    /\ query = NoQuery
    /\ result = Returned(NoneValue)
    /\ loaded = {}
    /\ nrecords = 0
    /\ mirror = EmptyGraph
    /\ order = <<>>

LoadEcuSpecs(json_data) ==
    /\ order = <<>>
    /\ nrecords + Len(json_data.pins) <= MaxRecords
    /\ LET out == load_ecu_specs(graph, json_data)
       IN  /\ graph' = out.graph
           /\ result' = out.result
    /\ query' = NoQuery
    /\ nrecords' = nrecords + Len(json_data.pins)
    /\ UNCHANGED <<loaded, mirror, order>>

LoadHarnessNetlist(netlist_data) ==
    /\ order = <<>>
    /\ nrecords + Len(netlist_data) <= MaxRecords
    /\ LET out == load_harness_netlist(graph, netlist_data)
       IN  /\ graph' = out.graph
           /\ result' = out.result
    /\ query' = NoQuery
    /\ loaded' = loaded \cup {<<netlist_data[i].from, netlist_data[i].to>> :
                                 i \in 1..Len(netlist_data)}
    /\ nrecords' = nrecords + Len(netlist_data)
    /\ UNCHANGED <<mirror, order>>

\* a lookup that creates the queried node when it is missing
GraphAfterLookupThatCreates(G, load_node_id, new_current_draw) ==
    Vivify(G, load_node_id)

\* the graph a validation query leaves behind: the traversal only reads
GraphAfterValidation(G, load_node_id, new_current_draw) == G

ValidateFeatureChange(load_node_id, new_current_draw) ==
    /\ order = <<>>
    /\ result' = validate_feature_change(graph, load_node_id, new_current_draw)
    /\ graph' = GraphAfterValidation(graph, load_node_id, new_current_draw)
    /\ query' = [load_node_id |-> load_node_id,
                 new_current_draw |-> new_current_draw]
    /\ UNCHANGED <<loaded, nrecords, mirror, order>>

Next ==
    \/ \E k \in 1..(MaxRecords - nrecords) :
          \E json_data \in Descriptors(k) : LoadEcuSpecs(json_data)
    \/ \E k \in 1..(MaxRecords - nrecords) :
          \E netlist_data \in Netlists(k) : LoadHarnessNetlist(netlist_data)
    \/ \E load_node_id \in LoadNodeIds, new_current_draw \in CurrentDraws :
          ValidateFeatureChange(load_node_id, new_current_draw)

Spec == Init /\ [][Next]_vars

-----------------------------------------------------------------------------
\* Two twins fed the same descriptor and netlist in the two orders, as the
\* EXECUTION section feeds one: graph takes the descriptor first, mirror the
\* netlist first.  order holds the inputs, the step and the four outcomes.

InitOrder ==
    /\ graph = EmptyGraph
    /\ mirror = EmptyGraph
    /\ \E k \in 1..(MaxRecords - 1) :
          \E json_data \in {d \in Descriptors(k) : Complete(d)} :
             \E m \in 1..(MaxRecords - k) :
                \E netlist_data \in Netlists(m) :
                   order = [step |-> "start", json_data |-> json_data,
                            netlist_data |-> netlist_data, outcomes |-> <<>>]
    /\ query = NoQuery
    /\ result = Returned(NoneValue)
    /\ loaded = {}
    /\ nrecords = 0

LoadFirst ==
    /\ order # <<>>
    /\ order.step = "start"
    /\ LET a == load_ecu_specs(graph, order.json_data)
           b == load_harness_netlist(mirror, order.netlist_data)
       IN  /\ graph' = a.graph
           /\ mirror' = b.graph
           /\ order' = [order EXCEPT !.step = "first",
                                     !.outcomes = <<a.result, b.result>>]
    /\ UNCHANGED <<query, result, loaded, nrecords>>

LoadSecond ==
    /\ order # <<>>
    /\ order.step = "first"
    /\ LET a == load_harness_netlist(graph, order.netlist_data)
           b == load_ecu_specs(mirror, order.json_data)
       IN  /\ graph' = a.graph
           /\ mirror' = b.graph
           /\ order' = [order EXCEPT !.step = "second",
                                     !.outcomes = @ \o <<a.result, b.result>>]
    /\ UNCHANGED <<query, result, loaded, nrecords>>

NextOrder == LoadFirst \/ LoadSecond

SpecOrder == InitOrder /\ [][NextOrder]_vars

-----------------------------------------------------------------------------
\* Vocabulary of the properties.

Range(s) == {s[i] : i \in 1..Len(s)}

RECURSIVE SumTo(_, _)
SumTo(f, n) == IF n = 0 THEN 0 ELSE f[n] + SumTo(f, n - 1)

NodeType(G, n) == Get(G.node[n], "type")

IsPin(G, n) == HasNode(G, n) /\ NodeType(G, n) = "PIN"

IsInternal(G, u, v) == HasEdge(G, u, v) /\ Get(G.edge[<<u, v>>], "type") = "INTERNAL"

\* a conductor between u and v was loaded from a netlist
IsWireSegment(u, v) == <<u, v>> \in loaded \/ <<v, u>> \in loaded

\* breadth-first discovery order from visited[1], neighbours in insertion order
RECURSIVE Discover(_, _, _)
Discover(G, visited, i) ==
    IF i > Len(visited) THEN visited
    ELSE LET fresh == SelectSeq(G.succ[visited[i]], LAMBDA w : w \notin Range(visited))
         IN  Discover(G, visited \o fresh, i + 1)

\* the Pin nodes reachable from load, nearest first, ties in discovery order
ReachablePins(G, load) ==
    SelectSeq(Discover(G, <<load>>, 1), LAMBDA n : IsPin(G, n))

Queried == query # NoQuery

KnownLoad == Queried /\ HasNode(graph, query.load_node_id)

\* the last call was a validation that returned a verdict
IsVerdict == Queried /\ result.kind = "return" /\ "checks" \in DOMAIN result.value

\* the path the verdict was computed on
VerdictPath ==
    BidirectionalShortestPath(graph, query.load_node_id, result.value.target_pin)

-----------------------------------------------------------------------------
\* C1: whenever the queried load is a node from which some Pin node is
\* reachable, the validation resolves as target the Pin node nearest to the
\* load by hop count, ties broken by neighbour insertion order.
C1_NearestPinResolved ==
    (KnownLoad /\ ReachablePins(graph, query.load_node_id) # <<>>)
        => /\ IsVerdict
           /\ result.value.target_pin = ReachablePins(graph, query.load_node_id)[1]

\* C2: a query for a load id that is no node of the graph returns a failure
\* value, not an exception, that carries no verdict and differs from the
\* no-power-path failure.
C2_UnknownNodeReported ==
    (Queried /\ ~HasNode(graph, query.load_node_id))
        => /\ result.kind = "return"
           /\ "checks" \notin DOMAIN result.value
           /\ result.value # NoPathResult

\* C3: a query for a load that is a node but reaches no Pin node returns the
\* no-power-path failure, which holds no verdict field, and does not raise.
C3_NoPowerPathReturned ==
    (KnownLoad /\ ReachablePins(graph, query.load_node_id) = <<>>)
        => /\ result.kind = "return"
           /\ result.value = NoPathResult

-----------------------------------------------------------------------------
\* the resistance of a path, INTERNAL edges counted as zero
PathOhms(G, path) ==
    SumTo([i \in 1..(Len(path) - 1) |->
              LET edge_data == G.edge[<<path[i], path[i + 1]>>]
              IN  IF Get(edge_data, "type") = "INTERNAL" THEN 0
                  ELSE edge_data.resistance_ohm_per_m * edge_data.length_m],
          Len(path) - 1)

\* C4: every verdict lists exactly two outcomes, Rule A then Rule B; Rule A
\* fails iff the current exceeds the target pin's rating, Rule B fails iff
\* current times path resistance exceeds 0.5 V, each whatever the other does.
C4_TwoIndependentRules ==
    IsVerdict =>
        LET checks == result.value.checks
            current == query.new_current_draw
            pin == graph.node[result.value.target_pin]
        IN  /\ Len(checks) = 2
            /\ checks[1].rule \in {"Pin Overcurrent", "Current OK"}
            /\ checks[2].rule \in {"Voltage Drop High", "Voltage Drop OK"}
            /\ checks[1].outcome = "FAIL" <=> current > pin.max_current
            /\ checks[1].outcome = "PASS" <=> ~(current > pin.max_current)
            /\ checks[2].outcome = "FAIL"
                  <=> current * PathOhms(graph, VerdictPath) > MaxVoltageDrop
            /\ checks[2].outcome = "PASS"
                  <=> ~(current * PathOhms(graph, VerdictPath) > MaxVoltageDrop)

\* a verdict over a two-wire path where Rule A fails and Rule B passes
C4_Witness ==
    /\ IsVerdict
    /\ Len(VerdictPath) = 3
    /\ result.value.checks[1].outcome = "FAIL"
    /\ result.value.checks[2].outcome = "PASS"

\* the other three combinations of outcomes
C4_BothPass ==
    /\ IsVerdict
    /\ result.value.checks[1].outcome = "PASS"
    /\ result.value.checks[2].outcome = "PASS"

C4_OnlyDropFails ==
    /\ IsVerdict
    /\ result.value.checks[1].outcome = "PASS"
    /\ result.value.checks[2].outcome = "FAIL"

C4_BothFail ==
    /\ IsVerdict
    /\ result.value.checks[1].outcome = "FAIL"
    /\ result.value.checks[2].outcome = "FAIL"

-----------------------------------------------------------------------------
WireKeys == {"gauge_awg", "length_m", "resistance_ohm_per_m"}

\* C5: for every connection record loaded so far, the edge and its mirror both
\* exist and carry the same gauge, length and resistance per metre.
C5_MirrorEdges ==
    \A c \in loaded :
        /\ HasEdge(graph, c[1], c[2])
        /\ HasEdge(graph, c[2], c[1])
        /\ \A k \in WireKeys :
              /\ k \in DOMAIN graph.edge[<<c[1], c[2]>>]
              /\ k \in DOMAIN graph.edge[<<c[2], c[1]>>]
              /\ graph.edge[<<c[1], c[2]>>][k] = graph.edge[<<c[2], c[1]>>][k]

\* a self loop and a wire laid over an ECU's INTERNAL edge have been loaded
C5_Witness ==
    /\ <<"Lamp_Fog_L", "Lamp_Fog_L">> \in loaded
    /\ <<"BCM_Gen2", "BCM_Gen2:Pin4">> \in loaded
    /\ IsInternal(graph, "BCM_Gen2", "BCM_Gen2:Pin4")

-----------------------------------------------------------------------------
MalformedWire(connection) ==
    \/ connection.length_m < 0
    \/ connection.resistance_per_m < 0
    \/ connection.gauge <= 0

MalformedPin(pin) ==
    \/ ~(PinFields \subseteq DOMAIN pin)
    \/ pin.max_current_amps < 0

\* the records of s before the first one that satisfies Bad
Preceding(s, Bad(_)) ==
    LET first == CHOOSE i \in 1..Len(s) :
                     Bad(s[i]) /\ \A j \in 1..(i - 1) : ~Bad(s[j])
    IN  SubSeq(s, 1, first - 1)

\* C6: a loader call whose input holds a malformed record fails (raises, be
\* it as MalformedWire / MalformedSpec or under another name), and leaves the
\* graph that loading the records before the first malformed one gives.
C6_MalformedRecordRejected ==
    [][ /\ \A k \in 1..MaxRecords : \A netlist_data \in Netlists(k) :
              (/\ LoadHarnessNetlist(netlist_data)
               /\ \E i \in 1..k : MalformedWire(netlist_data[i]))
                  => /\ result'.kind = "raise"
                     /\ graph' = load_harness_netlist(graph,
                                     Preceding(netlist_data, MalformedWire)).graph
        /\ \A k \in 1..MaxRecords : \A json_data \in Descriptors(k) :
              (/\ LoadEcuSpecs(json_data)
               /\ \E i \in 1..k : MalformedPin(json_data.pins[i]))
                  => /\ result'.kind = "raise"
                     /\ graph' = LoadPins(add_node(graph, json_data.ecu_id,
                                              [type |-> "ECU", specs |-> json_data]),
                                          json_data.ecu_id,
                                          Preceding(json_data.pins, MalformedPin),
                                          1).graph
      ]_vars

-----------------------------------------------------------------------------
\* the resistance of the conductors laid along a path
WireOhms(G, path) ==
    SumTo([i \in 1..(Len(path) - 1) |->
              IF IsWireSegment(path[i], path[i + 1])
              THEN G.edge[<<path[i], path[i + 1]>>].resistance_ohm_per_m
                       * G.edge[<<path[i], path[i + 1]>>].length_m
              ELSE 0],
          Len(path) - 1)

\* C7: the voltage drop of a verdict is the current times the summed
\* resistance of exactly the wire segments of its path, and no edge of the
\* path is both a wire segment and skipped as INTERNAL.
C7_WireResistanceOnly ==
    IsVerdict =>
        /\ \A i \in 1..(Len(VerdictPath) - 1) :
              ~(/\ IsWireSegment(VerdictPath[i], VerdictPath[i + 1])
                /\ IsInternal(graph, VerdictPath[i], VerdictPath[i + 1]))
        /\ result.value.voltage_drop =
              RoundDiv(query.new_current_draw * WireOhms(graph, VerdictPath), 10)

-----------------------------------------------------------------------------
PinNumbers == {pin.pin_number : pin \in BcmPins \cup SubPins}

\* C8: every Pin node has exactly one incoming INTERNAL edge, and it comes
\* from an ECU node whose id and one pin number make up the pin's key.
C8_OneOwnerPerPin ==
    \A n \in DOMAIN graph.node :
        IsPin(graph, n) =>
            LET owners == {u \in DOMAIN graph.node : IsInternal(graph, u, n)}
            IN  /\ Cardinality(owners) = 1
                /\ \A u \in owners :
                      /\ NodeType(graph, u) = "ECU"
                      /\ \E pin_number \in PinNumbers : n = PinId(u, pin_number)

-----------------------------------------------------------------------------
\* the node keys a descriptor declares
DeclaredKeys(json_data) ==
    {json_data.ecu_id}
        \cup {PinId(json_data.ecu_id, json_data.pins[i].pin_number) :
                 i \in 1..Len(json_data.pins)}

\* C9: loading a descriptor then a netlist, and the netlist then the
\* descriptor, both succeed and give the same nodes and edges with the same
\* attributes; a netlist endpoint the descriptor does not declare is a node
\* without attributes.
C9_LoadOrderIndependent ==
    (order # <<>> /\ order.step = "second") =>
        /\ \A i \in 1..4 : order.outcomes[i] = Returned(NoneValue)
        /\ graph.node = mirror.node
        /\ graph.edge = mirror.edge
        /\ \A i \in 1..Len(order.netlist_data) :
              \A n \in {order.netlist_data[i].from, order.netlist_data[i].to} :
                 /\ HasNode(graph, n)
                 /\ n \notin DeclaredKeys(order.json_data)
                       => graph.node[n] = EmptyDict

\* both orders done for a netlist that wires the ECU to its own pin and
\* names a node declared nowhere
C9_Witness ==
    /\ order # <<>>
    /\ order.step = "second"
    /\ IsInternal(graph, "BCM_Gen2", "BCM_Gen2:Pin4")
    /\ "length_m" \in DOMAIN graph.edge[<<"BCM_Gen2", "BCM_Gen2:Pin4">>]
    /\ HasNode(mirror, "Splice_A22")
    /\ mirror.node["Splice_A22"] = EmptyDict

-----------------------------------------------------------------------------
\* C10: a validation query leaves every node, edge and attribute of the graph
\* as it was, whatever its outcome.
C10_ValidationReadOnly == [][query' # NoQuery => graph' = graph]_vars

\* a query that walked a path and returned a verdict over a fully loaded graph
C10_Witness ==
    /\ IsVerdict
    /\ graph.edge # <<>>
    /\ nrecords = MaxRecords

====
